---- MODULE Spec2Model ----
(***************************************************************************)
(* Model of the Netflix viewing-history analysis pipeline:                 *)
(*   data_processing/process_netflix_data.py   (cleaning, flags, metrics)  *)
(*   statistical_testing/statistical_analysis.py (t-test entry point)      *)
(*   statistical_testing/statistical_tests.py  (Mann-Whitney entry point)  *)
(*                                                                         *)
(* A calendar date (a pandas Timestamp at midnight) is a triple <<y,m,d>>. *)
(* A date as TEXT (a CSV cell, a literal in the source) is a record        *)
(* [sep, f]: the separator character and the numeric fields in the order   *)
(* they are written; the empty cell is [sep |-> "", f |-> <<>>].           *)
(* A title is a sequence of tokens (single characters, and the words       *)
(* "Season" and "Episode" as one token each).                              *)
(***************************************************************************)
EXTENDS Integers, Sequences, FiniteSets, TLC

VARIABLES
    \* --- process_netflix_data.py run ---------------------------------
    raw,                \* the input CSV: sequence of [Date, Title] text rows
    pc,                 \* position of the run
    df,                 \* the event table passed from stage to stage
    daily_counts, weekly_counts, exam_period_stats, dow_stats, weekend_stats,
    files,              \* CSV files written by the run: name -> table
    error,              \* exception that left process_netflix_data ("" = none)
    \* --- statistical_analysis.py / statistical_tests.py runs ----------
    an_daily,           \* daily_counts as loaded by load_processed_data
    an_weekly,          \* weekly_counts as loaded by load_processed_data
    ttest,              \* result of perform_ttest_exam_periods
    weekly_stats,       \* result of analyze_weekly_patterns
    an_error,           \* exception raised in statistical_analysis ("" = none)
    st_daily,           \* daily_views as loaded and flagged by mann_whitney_test
    st_exam_stats,      \* exam_stats as loaded by statistical_tests.load_data
    mann_whitney,       \* result of mann_whitney_test
    chi_square,         \* result of chi_square_test
    chi_error,          \* exception raised by chi_square_test ("" = none)
    binge_sessions,     \* local of calculate_binge_watching_metrics
    binge_stats,        \* its return value
    binge_error,        \* exception raised by it ("" = none)
    \* --- the table object handed to the stage that ran last --------------
    arg_before,         \* its content when the stage was called
    arg_after,          \* its content when the stage returned
    \* --- extract_show_info applied to arbitrary titles ----------------
    title, tchunks, tpc, parsed, reparsed,
    \* --- the period classifiers applied to arbitrary dates ------------
    cdate, cpc, cflag, cflag_tests, cflag_analysis

anVars    == <<an_daily, an_weekly, ttest, weekly_stats, an_error>>
stVars    == <<st_daily, st_exam_stats, mann_whitney, chi_square, chi_error>>
bingeVars == <<binge_sessions, binge_stats, binge_error>>
frameVars == <<arg_before, arg_after>>
pipeVars  == <<raw, pc, df, daily_counts, weekly_counts, exam_period_stats,
               dow_stats, weekend_stats, files, error,
               anVars, stVars, bingeVars, frameVars>>
titleVars == <<title, tchunks, tpc, parsed, reparsed>>
classVars == <<cdate, cpc, cflag, cflag_tests, cflag_analysis>>
vars      == <<pipeVars, titleVars, classVars>>

-----------------------------------------------------------------------------
(* Bounds *)
MaxRows   == 3      \* rows of the input CSV
MaxChunks == 3      \* chunks a title is assembled from

-----------------------------------------------------------------------------
(* Calendar arithmetic (pandas Timestamp: proleptic Gregorian calendar) *)

IsLeap(y) == (y % 4 = 0) /\ ((y % 100 # 0) \/ (y % 400 = 0))

DaysInMonth(y, m) ==
    IF m = 2 THEN (IF IsLeap(y) THEN 29 ELSE 28)
    ELSE IF m \in {4, 6, 9, 11} THEN 30 ELSE 31

RECURSIVE DaysBeforeMonth(_, _)
DaysBeforeMonth(y, m) ==
    IF m = 1 THEN 0 ELSE DaysBeforeMonth(y, m - 1) + DaysInMonth(y, m - 1)

DaysBeforeYear(y) ==
    LET p == y - 1 IN p * 365 + (p \div 4) - (p \div 100) + (p \div 400)

\* ordinal of a date; ordinal 1 is 0001-01-01, a Monday
ToOrdinal(date) == DaysBeforeYear(date[1]) + DaysBeforeMonth(date[1], date[2]) + date[3]

\* Timestamp comparison `a <= b`
DateLE(a, b) == ToOrdinal(a) <= ToOrdinal(b)

IsValidDate(y, m, d) == m \in 1..12 /\ d \in 1..DaysInMonth(y, m)

\* NaT, the missing Timestamp
NaT == <<0, 0, 0>>

\* pd.to_datetime(text) without a format, as used on the ISO literals of the
\* source and on the Date column read back from a CSV written by to_csv
to_datetime(text) == <<text.f[1], text.f[2], text.f[3]>>

IsoText(y, m, d) == [sep |-> "-", f |-> <<y, m, d>>]

-----------------------------------------------------------------------------
(* Period classification *)

EXAM_PERIODS == <<
    <<IsoText(2024, 3, 25),  IsoText(2024, 3, 29)>>,
    <<IsoText(2024, 4, 15),  IsoText(2024, 4, 18)>>,
    <<IsoText(2024, 4, 23),  IsoText(2024, 4, 27)>>,
    <<IsoText(2024, 5, 5),   IsoText(2024, 5, 17)>>,
    <<IsoText(2024, 6, 1),   IsoText(2024, 6, 7)>>,
    <<IsoText(2024, 8, 1),   IsoText(2024, 8, 7)>>,
    <<IsoText(2024, 8, 20),  IsoText(2024, 8, 26)>>,
    <<IsoText(2024, 11, 1),  IsoText(2024, 11, 10)>>,
    <<IsoText(2024, 11, 15), IsoText(2024, 11, 30)>>,
    <<IsoText(2024, 12, 7),  IsoText(2024, 12, 15)>>,
    <<IsoText(2024, 12, 29), IsoText(2025, 1, 9)>> >>

\* the list local to statistical_tests.is_exam_period
TESTS_EXAM_PERIODS == EXAM_PERIODS

\* the list local to statistical_analysis.is_exam_period
exam_periods == <<
    <<IsoText(2024, 1, 8),   IsoText(2024, 1, 19)>>,
    <<IsoText(2024, 5, 13),  IsoText(2024, 5, 24)>>,
    <<IsoText(2024, 8, 26),  IsoText(2024, 9, 6)>>,
    <<IsoText(2024, 12, 16), IsoText(2024, 12, 27)>> >>

\* (mutation of InPeriod: the end date excluded)
InPeriodStrictEnd(date, period) ==
    /\ DateLE(to_datetime(period[1]), date)
    /\ DateLE(date, to_datetime(period[2]))
    /\ date # to_datetime(period[2])

\* the loop body's test, `start_date <= date <= end_date`
InPeriod(date, period) ==
    /\ DateLE(to_datetime(period[1]), date)
    /\ DateLE(date, to_datetime(period[2]))

\* `for start, end in periods: if ...: return True` from index i on; `return False`
RECURSIVE ScanPeriods(_, _, _)
ScanPeriods(date, periods, i) ==
    IF i > Len(periods) THEN FALSE
    ELSE IF InPeriod(date, periods[i]) THEN TRUE
    ELSE ScanPeriods(date, periods, i + 1)

\* add_exam_period_flag.is_exam_period (process_netflix_data.py)
is_exam_period(date) == ScanPeriods(date, EXAM_PERIODS, 1)

\* statistical_tests.is_exam_period
tests_is_exam_period(date) == ScanPeriods(date, TESTS_EXAM_PERIODS, 1)

\* statistical_analysis.is_exam_period
analysis_is_exam_period(date) == ScanPeriods(date, exam_periods, 1)

-----------------------------------------------------------------------------
(* Title parsing: re.match(pattern, title) with                             *)
(*   pattern = ^(.*?)(?:: Season (\d+))?(?:: (Episode \d+|.*?))?$          *)

None == <<"None">>

IsDigit(t) == t \in {"1", "2"}
IsSpace(t) == t \in {" ", "\n"}

Drop(s, n) == SubSeq(s, n + 1, Len(s))
Take(s, n) == SubSeq(s, 1, n)
StartsWith(s, p) == Len(s) >= Len(p) /\ Take(s, Len(p)) = p

\* `.` does not match a newline
NoNewline(s) == \A i \in 1..Len(s) : s[i] # "\n"

\* `$` (no MULTILINE flag): at the end, or just before a final newline
AtEnd(s) == s = <<>> \/ s = <<"\n">>

\* length of the run of digits s starts with
RECURSIVE DigitRun(_)
DigitRun(s) == IF s # <<>> /\ IsDigit(Head(s)) THEN 1 + DigitRun(Tail(s)) ELSE 0

NoMatch == [ok |-> FALSE, g2 |-> None, g3 |-> None]

\* (?:: (Episode \d+|.*?))?$  on s. The optional group is tried first; inside it
\* the alternative `Episode \d+` is tried before the lazy `.*?`.
MatchEpisode(s) ==
    LET body == Drop(s, 2)
        epDigits == DigitRun(Drop(body, 2))
        lazyLens == {q \in 0..Len(body) : NoNewline(Take(body, q)) /\ AtEnd(Drop(body, q))}
        lazyLen  == CHOOSE q \in lazyLens : \A r \in lazyLens : q <= r
    IN  IF StartsWith(s, <<":", " ">>)
            /\ StartsWith(body, <<"Episode", " ">>) /\ epDigits >= 1
            /\ AtEnd(Drop(body, 2 + epDigits))
        THEN [ok |-> TRUE, g2 |-> None, g3 |-> Take(body, 2 + epDigits)]
        ELSE IF StartsWith(s, <<":", " ">>) /\ lazyLens # {}
        THEN [ok |-> TRUE, g2 |-> None, g3 |-> Take(body, lazyLen)]
        ELSE IF AtEnd(s)
        THEN [ok |-> TRUE, g2 |-> None, g3 |-> None]
        ELSE NoMatch

\* (?:: Season (\d+))?(?:: (Episode \d+|.*?))?$  on s. The optional season group
\* is tried first, \d+ greedy, giving digits back until the rest matches.
MatchRest(s) ==
    LET prefix == <<":", " ", "Season", " ">>
        digits == Drop(s, Len(prefix))
        run    == DigitRun(digits)
        goodK  == {k \in 1..run : MatchEpisode(Drop(digits, k)).ok}
        k      == CHOOSE j \in goodK : \A i \in goodK : i <= j
    IN  IF StartsWith(s, prefix) /\ goodK # {}
        THEN [MatchEpisode(Drop(digits, k)) EXCEPT !.g2 = Take(digits, k)]
        ELSE MatchEpisode(s)

\* str.strip(): whitespace removed from both ends
RECURSIVE LStrip(_)
LStrip(s) == IF s # <<>> /\ IsSpace(Head(s)) THEN LStrip(Tail(s)) ELSE s

\* (mutation of RStrip: a single trailing whitespace character removed)
RStripOnce(s) == IF s # <<>> /\ IsSpace(s[Len(s)]) THEN Take(s, Len(s) - 1) ELSE s

RECURSIVE RStrip(_)
RStrip(s) ==
    IF s # <<>> /\ IsSpace(s[Len(s)]) THEN RStrip(Take(s, Len(s) - 1)) ELSE s

Strip(s) == RStrip(LStrip(s))

extract_show_info(t) ==
    LET \* ^(.*?) is lazy: the shortest prefix after which the rest matches
        lens == {n \in 0..Len(t) : NoNewline(Take(t, n)) /\ MatchRest(Drop(t, n)).ok}
        n    == CHOOSE i \in lens : \A j \in lens : i <= j
        m    == MatchRest(Drop(t, n))
    IN  IF lens # {}
        THEN [show_name |-> Strip(Take(t, n)),
              season    |-> m.g2,
              episode   |-> IF m.g3 # None /\ m.g3 # <<>> THEN m.g3 ELSE None]
        ELSE [show_name |-> t, season |-> None, episode |-> None]

-----------------------------------------------------------------------------
(* Reading the input: pd.read_csv and pd.to_datetime(..., format='%m/%d/%y') *)

MdyText(m, d, yy) == [sep |-> "/", f |-> <<m, d, yy>>]

\* an empty CSV cell; read_csv reads it as NaN
EmptyCell == [sep |-> "", f |-> <<>>]
IsNull(text) == text = EmptyCell

\* strptime %y: 69..99 are 19xx, 0..68 are 20xx
CenturyOf(yy) == IF yy >= 69 THEN 1900 + yy ELSE 2000 + yy

\* does a non-null cell match '%m/%d/%y'
MatchesFormat(text) ==
    /\ text.sep = "/"
    /\ Len(text.f) = 3
    /\ text.f[3] \in 0..99
    /\ IsValidDate(CenturyOf(text.f[3]), text.f[1], text.f[2])

\* one element of pd.to_datetime(df['Date'], format='%m/%d/%y') that does not
\* raise: a null stays null (NaT), a matching string is converted
to_datetime_format(text) ==
    IF IsNull(text) THEN NaT
    ELSE <<CenturyOf(text.f[3]), text.f[1], text.f[2]>>

\* pd.to_datetime(df['Date'], format=...) raises ValueError (errors='raise')
ToDatetimeRaises(table) ==
    \E i \in 1..Len(table) : ~IsNull(table[i].Date) /\ ~MatchesFormat(table[i].Date)

-----------------------------------------------------------------------------
(* Calendar features *)

\* Timestamp.dayofweek: Monday = 0 .. Sunday = 6
DayOfWeek(date) == (ToOrdinal(date) + 6) % 7

\* ordinal of the Monday that starts ISO week 1 of year y
IsoWeek1Monday(y) ==
    LET firstday     == ToOrdinal(<<y, 1, 1>>)
        firstweekday == (firstday + 6) % 7
        monday       == firstday - firstweekday
    IN  IF firstweekday > 3 THEN monday + 7 ELSE monday

\* Timestamp.isocalendar(): <<ISO year, ISO week>>
IsoCalendar(date) ==
    LET y     == date[1]
        today == ToOrdinal(date)
        week  == (today - IsoWeek1Monday(y)) \div 7
    IN  IF today < IsoWeek1Monday(y)
        THEN <<y - 1, ((today - IsoWeek1Monday(y - 1)) \div 7) + 1>>
        ELSE IF week >= 52 /\ today >= IsoWeek1Monday(y + 1)
        THEN <<y + 1, 1>>
        ELSE <<y, week + 1>>

-----------------------------------------------------------------------------
(* Table helpers: a table is a sequence of rows, a row is a record *)

Range(s) == {s[i] : i \in 1..Len(s)}

\* the rows of s at the positions in I, in the table's order (boolean indexing,
\* the rows of a groupby group)
RECURSIVE SelectIdx(_, _)
SelectIdx(s, I) ==
    IF s = <<>> THEN <<>>
    ELSE SelectIdx(Take(s, Len(s) - 1), I) \o (IF Len(s) \in I THEN <<s[Len(s)]>> ELSE <<>>)

RECURSIVE SumSeq(_), SumSq(_)
SumSeq(s) == IF s = <<>> THEN 0 ELSE Head(s) + SumSeq(Tail(s))

\* the elements of a set in ascending order of an injective integer rank, given
\* as a function on the set (groupby sorts its group keys)
SortedBy(S, rank) ==
    [k \in 1..Cardinality(S) |->
        CHOOSE x \in S : Cardinality({y \in S : rank[y] < rank[x]}) = k - 1]

\* df.sort_values('Date'): rows in ascending Date order; rows of one date keep
\* their input order (numpy sorts arrays this short by insertion)
RECURSIVE InsertByDate(_, _)
InsertByDate(sorted, row) ==
    IF sorted = <<>> THEN <<row>>
    ELSE IF ToOrdinal(sorted[Len(sorted)].Date) <= ToOrdinal(row.Date)
    THEN Append(sorted, row)
    ELSE Append(InsertByDate(Take(sorted, Len(sorted) - 1), row), sorted[Len(sorted)])

RECURSIVE SortByDate(_)
SortByDate(s) ==
    IF s = <<>> THEN <<>>
    ELSE InsertByDate(SortByDate(Take(s, Len(s) - 1)), s[Len(s)])

BoolRank(b) == IF b THEN 1 ELSE 0

\* code point of the first character of a token
TokenCode(t) ==
    CASE t = "\n" -> 10 [] t = " " -> 32 [] t = "1" -> 49 [] t = "2" -> 50
      [] t = ":" -> 58 [] t = "A" -> 65 [] t = "B" -> 66
      [] t = "Episode" -> 69 [] t = "Season" -> 83

\* str < str
RECURSIVE StrLess(_, _)
StrLess(a, b) ==
    IF b = <<>> THEN FALSE
    ELSE IF a = <<>> THEN TRUE
    ELSE IF Head(a) # Head(b) THEN TokenCode(Head(a)) < TokenCode(Head(b))
    ELSE StrLess(Tail(a), Tail(b))

-----------------------------------------------------------------------------
(* process_netflix_data.py: the stages as functions of the table *)

ANALYSIS_YEAR   == 2024
BINGE_THRESHOLD == 3

\* df['Date'] = pd.to_datetime(df['Date'], format='%m/%d/%y'): the column of
\* the table clean_data was given is replaced, on every row
\* clean_data, when to_datetime does not raise: dates converted, rows outside
\* the year dropped (NaT has no year and is dropped with them), show columns
\* added, rows sorted by Date
\* (mutation of InAnalysisYear: later years kept as well)
InAnalysisYearOrLater(date) == date[1] >= ANALYSIS_YEAR

\* df['Date'].dt.year == 2024; NaT has no year and compares False
InAnalysisYear(date) == date[1] = ANALYSIS_YEAR

convert_dates(table) ==
    [i \in 1..Len(table) |-> [table[i] EXCEPT !.Date = to_datetime_format(@)]]

clean_data(table) ==
    LET dated  == convert_dates(table)
        inYear == SelectIdx(dated, {i \in 1..Len(dated) :
                                        InAnalysisYear(dated[i].Date)})
        shown  == [i \in 1..Len(inYear) |->
                      LET info == extract_show_info(inYear[i].Title)
                      IN  inYear[i] @@ [show_name |-> info.show_name,
                                        season    |-> info.season,
                                        episode   |-> info.episode]]
    IN  SortByDate(shown)

add_exam_period_flag(table) ==
    [i \in 1..Len(table) |->
        table[i] @@ [is_exam_period |-> is_exam_period(table[i].Date)]]

\* (mutation of IsWeekendDay: Sunday alone)
IsSunday(dow) == dow = 6

\* .isin([5, 6])
IsWeekendDay(dow) == dow \in {5, 6}

add_time_features(table) ==
    [i \in 1..Len(table) |->
        LET d == table[i].Date
        IN  table[i] @@ [year        |-> d[1],
                         month       |-> d[2],
                         day         |-> d[3],
                         day_of_week |-> DayOfWeek(d),
                         is_weekend  |-> IsWeekendDay(DayOfWeek(d)),
                         week_number |-> IsoCalendar(d)[2]]]

\* (mutation of CountTitle: distinct titles counted instead of rows)
CountDistinctTitle(group) == Cardinality({r.Title : r \in Range(group)})

\* agg 'Title': 'count' and groupby(...).size() on a group of rows; every Title
\* that reaches the aggregation is a string, so both count the rows
CountTitle(group) == Len(group)

\* (mutation of NUniqueShows: distinct titles instead of distinct show names)
NUniqueTitles(group) == Cardinality({r.Title : r \in Range(group)})

\* agg 'show_name': 'nunique'
NUniqueShows(group) == Cardinality({r.show_name : r \in Range(group)})

\* agg 'Date': 'nunique'
NUniqueDates(group) == Cardinality({r.Date : r \in Range(group)})

\* (mutation of DailyCounts: groupby(sort=False), the dates in the order of
\* their first row)
DailyCountsUnsorted(table) ==
    LET firsts == SelectIdx(table, {i \in 1..Len(table) :
                                       \A j \in 1..(i - 1) : table[j].Date # table[i].Date})
    IN  [k \in 1..Len(firsts) |->
            LET group == SelectIdx(table, {i \in 1..Len(table) :
                                              table[i].Date = firsts[k].Date})
            IN  [Date         |-> firsts[k].Date,
                 daily_views  |-> CountTitle(group),
                 unique_shows |-> NUniqueShows(group)]]

\* df.groupby('Date').agg({'Title': 'count', 'show_name': 'nunique'})
DailyCounts(table) ==
    LET dates == {r.Date : r \in Range(table)}
        keys  == SortedBy(dates, [d \in dates |-> ToOrdinal(d)])
    IN  [k \in 1..Len(keys) |->
            LET group == SelectIdx(table, {i \in 1..Len(table) :
                                              table[i].Date = keys[k]})
            IN  [Date         |-> keys[k],
                 daily_views  |-> CountTitle(group),
                 unique_shows |-> NUniqueShows(group)]]

\* the grouping key of groupby(['year', 'week_number'])
WeekKey(r) == <<r.year, r.week_number>>

WeekRank(key) == key[1] * 100 + key[2]

\* df.groupby(['year', 'week_number']).size()
WeeklyCounts(table) ==
    LET weeks == {WeekKey(r) : r \in Range(table)}
        keys  == SortedBy(weeks, [w \in weeks |-> WeekRank(w)])
    IN  [k \in 1..Len(keys) |->
            LET group == SelectIdx(table, {i \in 1..Len(table) :
                                              WeekKey(table[i]) = keys[k]})
            IN  [year         |-> keys[k][1],
                 week_number  |-> keys[k][2],
                 weekly_views |-> CountTitle(group)]]

\* df.groupby('is_exam_period').agg({'Title': 'count', 'show_name': 'nunique',
\*                                   'Date': 'nunique'})
ExamPeriodStats(table) ==
    LET classes == {r.is_exam_period : r \in Range(table)}
        keys    == SortedBy(classes, [c \in classes |-> BoolRank(c)])
    IN  [k \in 1..Len(keys) |->
            LET group == SelectIdx(table, {i \in 1..Len(table) :
                                              table[i].is_exam_period = keys[k]})
            IN  [is_exam_period |-> keys[k],
                 total_views    |-> CountTitle(group),
                 unique_shows   |-> NUniqueShows(group),
                 unique_days    |-> NUniqueDates(group)]]

DowRank(key) == BoolRank(key[1]) * 10 + key[2]

\* df.groupby(['is_exam_period', 'day_of_week']).size()
DowStats(table) ==
    LET cells == {<<r.is_exam_period, r.day_of_week>> : r \in Range(table)}
        keys  == SortedBy(cells, [c \in cells |-> DowRank(c)])
    IN  [k \in 1..Len(keys) |->
            LET group == SelectIdx(table, {i \in 1..Len(table) :
                             <<table[i].is_exam_period, table[i].day_of_week>> = keys[k]})
            IN  [is_exam_period |-> keys[k][1],
                 day_of_week    |-> keys[k][2],
                 views          |-> CountTitle(group)]]

WeekendRank(key) == BoolRank(key[1]) * 2 + BoolRank(key[2])

\* df.groupby(['is_exam_period', 'is_weekend']).size()
WeekendStats(table) ==
    LET cells == {<<r.is_exam_period, r.is_weekend>> : r \in Range(table)}
        keys  == SortedBy(cells, [c \in cells |-> WeekendRank(c)])
    IN  [k \in 1..Len(keys) |->
            LET group == SelectIdx(table, {i \in 1..Len(table) :
                             <<table[i].is_exam_period, table[i].is_weekend>> = keys[k]})
            IN  [is_exam_period |-> keys[k][1],
                 is_weekend     |-> keys[k][2],
                 views          |-> CountTitle(group)]]

\* DataFrame.to_csv of a table with a Date column: a Timestamp is written as
\* YYYY-MM-DD text
DateToCsv(table) ==
    [i \in 1..Len(table) |->
        [table[i] EXCEPT !.Date = IsoText(@[1], @[2], @[3])]]

-----------------------------------------------------------------------------
(* calculate_binge_watching_metrics *)

\* columns of df after add_time_features
FeatureColumns == {"Date", "Title", "show_name", "season", "episode",
                   "is_exam_period", "year", "month", "day", "day_of_week",
                   "is_weekend", "week_number"}

DateShowLess(a, b) ==
    \/ ToOrdinal(a[1]) < ToOrdinal(b[1])
    \/ a[1] = b[1] /\ StrLess(a[2], b[2])

\* position of a (Date, show_name) key among the keys, in ascending order
DateShowRank(keys) ==
    [x \in keys |-> Cardinality({y \in keys : DateShowLess(y, x)})]

\* df.groupby(['Date', 'show_name']).size().reset_index(name='episodes_watched')
DailyShowCounts(table) ==
    LET pairs == {<<r.Date, r.show_name>> : r \in Range(table)}
        keys  == SortedBy(pairs, DateShowRank(pairs))
    IN  [k \in 1..Len(keys) |->
            LET group == SelectIdx(table, {i \in 1..Len(table) :
                             <<table[i].Date, table[i].show_name>> = keys[k]})
            IN  [Date             |-> keys[k][1],
                 show_name        |-> keys[k][2],
                 episodes_watched |-> CountTitle(group)]]

\* (mutation of IsBinge: strictly more than the threshold)
IsBingeStrict(row) == row.episodes_watched > BINGE_THRESHOLD

\* daily_show_counts['episodes_watched'] >= 3
IsBinge(row) == row.episodes_watched >= BINGE_THRESHOLD

BingeSessions(table) ==
    LET counts == DailyShowCounts(table)
    IN  SelectIdx(counts, {k \in 1..Len(counts) : IsBinge(counts[k])})

\* columns of df.merge(right, on=on, how='left'): those of df, then those of
\* right that are not join keys
MergeColumns(leftCols, rightCols, on) == leftCols \cup (rightCols \ on)

\* rows of df.merge(binge_sessions[['Date', 'show_name']], on=[...], how='left'):
\* every row of df once (the keys of binge_sessions are unique), no column added
\* (the selection of the right table has the two key columns only)
MergeRows(table, sessions) == table

NaN == [num |-> 0, den |-> 0]

\* groupby('is_exam_period')['is_binge_watching'].agg(['sum', 'count']) and the ratio
\* (an event is binge watching when the merge matched it: its pair is in sessions)
BingeStats(merged, sessions) ==
    LET classes == {r.is_exam_period : r \in Range(merged)}
        keys    == SortedBy(classes, [c \in classes |-> BoolRank(c)])
        flagged == {<<b.Date, b.show_name>> : b \in Range(sessions)}
    IN  [k \in 1..Len(keys) |->
            LET group == SelectIdx(merged, {i \in 1..Len(merged) :
                             merged[i].is_exam_period = keys[k]})
                binge == SelectIdx(group, {i \in 1..Len(group) :
                             <<group[i].Date, group[i].show_name>> \in flagged})
            IN  [is_exam_period       |-> keys[k],
                 sum                  |-> Len(binge),
                 count                |-> Len(group),
                 binge_watching_ratio |-> [num |-> Len(binge), den |-> Len(group)]]]

\* the whole function: what it raises, its local binge_sessions, what it returns
calculate_binge_watching_metrics(table) ==
    LET sessions == BingeSessions(table)
        columns  == MergeColumns(FeatureColumns, {"Date", "show_name"},
                                 {"Date", "show_name"})
        merged   == MergeRows(table, sessions)
    IN  IF "episodes_watched" \in columns
        THEN [raised |-> "", binge_sessions |-> sessions,
              binge_stats |-> BingeStats(merged, sessions)]
        ELSE \* df_with_binge['episodes_watched']: no such column
             [raised |-> "KeyError", binge_sessions |-> sessions,
              binge_stats |-> <<>>]

-----------------------------------------------------------------------------
(* statistical_analysis.py.  A number is a rational [num, den]; NaN is 0/0; a  *)
(* standard deviation is represented by its square.                          *)

Rat(n, d) == [num |-> n, den |-> d]
IsZero(x) == x.num = 0 /\ x.den # 0
IsNaN(x)  == x = NaN

\* a value computed by a library routine from two samples, left symbolic
Computed(fn, a, b) == [fn |-> fn, a |-> a, b |-> b]

\* np.mean of a non-empty sample
Mean(sample) == Rat(SumSeq(sample), Len(sample))

\* np.std of a non-empty sample (ddof = 0), squared
Std(sample) ==
    LET n  == Len(sample)
        sq == [i \in 1..n |-> sample[i] * sample[i]]
    IN  Rat(n * SumSeq(sq) - SumSeq(sample) * SumSeq(sample), n * n)

\* daily_counts[mask]['daily_views'] for the rows whose flag equals `flag`
DailyViewsWhere(table, flag) ==
    LET rows == SelectIdx(table, {i \in 1..Len(table) : table[i].is_exam_period = flag})
    IN  [i \in 1..Len(rows) |-> rows[i].daily_views]

\* load_processed_data: daily_viewing_counts.csv with the Date parsed and the
\* two flags added
load_processed_data(csv) ==
    [i \in 1..Len(csv) |->
        LET d == to_datetime(csv[i].Date)
        IN  [Date           |-> d,
             daily_views    |-> csv[i].daily_views,
             unique_shows   |-> csv[i].unique_shows,
             is_exam_period |-> analysis_is_exam_period(d),
             is_weekend     |-> DayOfWeek(d) \in {5, 6}]]

\* float64 arithmetic on the values above.  A zero denominator is kept: 0/0 is
\* NaN and x/0 an infinity, as numpy yields them (with a warning, no exception)
RatPlus(a, b)  == Rat(a.num * b.den + b.num * a.den, a.den * b.den)
RatMinus(a, b) == Rat(a.num * b.den - b.num * a.den, a.den * b.den)
RatTimes(a, b) == Rat(a.num * b.num, a.den * b.den)
RatOver(a, b)  == IF b.num < 0 THEN Rat(-(a.num * b.den), a.den * (-b.num))
                  ELSE Rat(a.num * b.den, a.den * b.num)

SumSq(s) == IF s = <<>> THEN 0 ELSE Head(s) * Head(s) + SumSq(Tail(s))

\* np.var(sample, ddof=1): the squared deviations from the mean over n - 1;
\* for a single value it is 0/0
Var1(sample) ==
    LET n == Len(sample)
    IN  Rat(n * SumSq(sample) - SumSeq(sample) * SumSeq(sample), n * (n - 1))

\* (var1 * (n1 - 1) + var2 * (n2 - 1)) / (n1 + n2 - 2), the square of pooled_se
PooledVariance(a, b) ==
    RatOver(RatPlus(RatTimes(Var1(a), Rat(Len(a) - 1, 1)),
                    RatTimes(Var1(b), Rat(Len(b) - 1, 1))),
            Rat(Len(a) + Len(b) - 2, 1))

\* (mutation of PooledNonZero: the quotient is formed whatever pooled_se is)
PooledAnything(q) == TRUE

\* pooled_se != 0, on the square of pooled_se; NaN != 0 is true
PooledNonZero(q) == ~IsZero(q)

\* x / np.sqrt(q)
QuotRoot(x, q) == IF IsNaN(x) \/ IsNaN(q) THEN NaN ELSE [num |-> x, root_of |-> q]

\* cohens_d = (mean1 - mean2) / pooled_se if pooled_se != 0 else 0
CohensD(a, b) ==
    IF PooledNonZero(PooledVariance(a, b))
    THEN QuotRoot(RatMinus(Mean(a), Mean(b)), PooledVariance(a, b))
    ELSE Rat(0, 1)

\* (mutation of EitherEmpty: the guard taken only when both samples are empty)
BothEmpty(a, b) == Len(a) = 0 /\ Len(b) = 0

\* len(exam_views) == 0 or len(non_exam_views) == 0
EitherEmpty(a, b) == Len(a) = 0 \/ Len(b) = 0

perform_ttest_exam_periods(table) ==
    LET exam_views     == DailyViewsWhere(table, TRUE)
        non_exam_views == DailyViewsWhere(table, FALSE)
    IN  IF EitherEmpty(exam_views, non_exam_views)
        THEN [t_statistic   |-> NaN,
              p_value       |-> NaN,
              cohens_d      |-> NaN,
              exam_mean     |-> IF Len(exam_views) > 0 THEN Mean(exam_views) ELSE Rat(0, 1),
              non_exam_mean |-> IF Len(non_exam_views) > 0 THEN Mean(non_exam_views)
                                ELSE Rat(0, 1),
              exam_std      |-> IF Len(exam_views) > 0 THEN Std(exam_views) ELSE Rat(0, 1),
              non_exam_std  |-> IF Len(non_exam_views) > 0 THEN Std(non_exam_views)
                                ELSE Rat(0, 1),
              exam_days     |-> Len(exam_views),
              non_exam_days |-> Len(non_exam_views)]
        ELSE [t_statistic   |-> Computed("ttest_ind.statistic", exam_views, non_exam_views),
              p_value       |-> Computed("ttest_ind.pvalue", exam_views, non_exam_views),
              cohens_d      |-> CohensD(exam_views, non_exam_views),
              exam_mean     |-> Mean(exam_views),
              non_exam_mean |-> Mean(non_exam_views),
              exam_std      |-> Std(exam_views),
              non_exam_std  |-> Std(non_exam_views),
              exam_days     |-> Len(exam_views),
              non_exam_days |-> Len(non_exam_views)]

\* pd.to_numeric on a cell read_csv has already parsed as an integer
to_numeric(v) == IF v \in Int THEN v ELSE NaN

\* weekly_counts['week_number'] = pd.to_numeric(...), and the same for
\* weekly_views: both columns of the given table are replaced
to_numeric_columns(table) ==
    [i \in 1..Len(table) |->
        [table[i] EXCEPT !.week_number = to_numeric(@), !.weekly_views = to_numeric(@)]]

\* stats.pearsonr raises ValueError when x and y have fewer than 2 elements
PearsonrRaises(table) == Len(table) < 2

\* the index idxmax() / idxmin() return: the first row holding the extreme
FirstIndexOf(table, v) ==
    CHOOSE i \in 1..Len(table) :
        /\ table[i].weekly_views = v
        /\ \A j \in 1..(i - 1) : table[j].weekly_views # v

MaxViewsOf(table) ==
    CHOOSE v \in {r.weekly_views : r \in Range(table)} :
        \A r \in Range(table) : r.weekly_views <= v
MinViewsOf(table) ==
    CHOOSE v \in {r.weekly_views : r \in Range(table)} :
        \A r \in Range(table) : r.weekly_views >= v

\* analyze_weekly_patterns, where stats.pearsonr does not raise
analyze_weekly_patterns(table) ==
    LET week_number  == [i \in 1..Len(table) |-> table[i].week_number]
        weekly_views == [i \in 1..Len(table) |-> table[i].weekly_views]
    IN  [correlation_coef    |-> Computed("pearsonr.statistic", week_number, weekly_views),
         correlation_p_value |-> Computed("pearsonr.pvalue", week_number, weekly_views),
         mean_weekly_views   |-> Mean(weekly_views),
         std_weekly_views    |-> Std(weekly_views),
         max_week |-> table[FirstIndexOf(table, MaxViewsOf(table))].week_number,
         min_week |-> table[FirstIndexOf(table, MinViewsOf(table))].week_number]

-----------------------------------------------------------------------------
(* statistical_tests.py *)

\* load_data: daily_viewing_counts.csv with the Date parsed
tests_load_data(csv) ==
    [i \in 1..Len(csv) |-> [csv[i] EXCEPT !.Date = to_datetime(@)]]

\* pandas Series.mean() / Series.median(): NaN for an empty sample
SeriesStat(fn, sample) == IF Len(sample) = 0 THEN NaN ELSE Computed(fn, sample, <<>>)

\* mann_whitney_test, its return value on the flagged table
mann_whitney_result(table) ==
    LET exam_views     == DailyViewsWhere(table, TRUE)
        non_exam_views == DailyViewsWhere(table, FALSE)
    IN  [test_name       |-> "Mann-Whitney U Test",
         statistic       |-> Computed("mannwhitneyu.statistic", exam_views, non_exam_views),
         p_value         |-> Computed("mannwhitneyu.pvalue", exam_views, non_exam_views),
         exam_mean       |-> SeriesStat("mean", exam_views),
         non_exam_mean   |-> SeriesStat("mean", non_exam_views),
         exam_median     |-> SeriesStat("median", exam_views),
         non_exam_median |-> SeriesStat("median", non_exam_views)]

\* mann_whitney_test, its effect on the table it is given: the flag column
mann_whitney_flag(table) ==
    [i \in 1..Len(table) |->
        table[i] @@ [is_exam_period |-> tests_is_exam_period(table[i].Date)]]

\* the value of a fraction in lowest terms
RECURSIVE Gcd(_, _)
Gcd(a, b) == IF b = 0 THEN a ELSE Gcd(b, a % b)
Abs(n) == IF n < 0 THEN -n ELSE n
Reduce(x) ==
    IF x.den = 0 THEN x
    ELSE IF x.num = 0 THEN Rat(0, 1)
    ELSE Rat(x.num \div Gcd(Abs(x.num), x.den), x.den \div Gcd(Abs(x.num), x.den))

\* exam_stats[exam_stats['is_exam_period']] and exam_stats[~exam_stats[...]]
ClassRows(exam_stats, flag) ==
    SelectIdx(exam_stats, {i \in 1..Len(exam_stats) : exam_stats[i].is_exam_period = flag})

\* .iloc[0] on a selection with no row
ChiSquareRaises(exam_stats) ==
    ClassRows(exam_stats, TRUE) = <<>> \/ ClassRows(exam_stats, FALSE) = <<>>

\* the exception: IndexError of .iloc[0]; on a table with no row at all the
\* flag column is not boolean and the selection may fail before (KeyError)
ChiSquareErrors(exam_stats) ==
    IF exam_stats = <<>> THEN {"IndexError", "KeyError"} ELSE {"IndexError"}

\* (mutation of ExpectedCount: the total spread evenly over the two classes)
ExpectedEven(total_views, days, total_days) == Rat(total_views, 2)

\* total_views * (exam_days / total_days)
ExpectedCount(total_views, days, total_days) ==
    Reduce(RatTimes(Rat(total_views, 1), RatOver(Rat(days, 1), Rat(total_days, 1))))

\* stats.chisquare(observed, expected): one term (O - E)^2 / E of the statistic
ChiSquareTerm(o, e) ==
    Reduce(RatOver(RatTimes(RatMinus(Rat(o, 1), e), RatMinus(Rat(o, 1), e)), e))

\* the sum of two terms
ChiSquareSum(a, b) ==
    LET g == Gcd(a.den, b.den)
    IN  IF g = 0 THEN RatPlus(a, b)
        ELSE Reduce(Rat(a.num * (b.den \div g) + b.num * (a.den \div g),
                        (a.den \div g) * b.den))

\* chi_square_test, where it does not raise
chi_square_test(exam_stats) ==
    LET exam_views     == ClassRows(exam_stats, TRUE)[1].total_views
        non_exam_views == ClassRows(exam_stats, FALSE)[1].total_views
        exam_days      == ClassRows(exam_stats, TRUE)[1].unique_days
        non_exam_days  == ClassRows(exam_stats, FALSE)[1].unique_days
        total_views    == exam_views + non_exam_views
        total_days     == exam_days + non_exam_days
        expected_exam     == ExpectedCount(total_views, exam_days, total_days)
        expected_non_exam == ExpectedCount(total_views, non_exam_days, total_days)
        observed == <<exam_views, non_exam_views>>
        expected == <<expected_exam, expected_non_exam>>
    IN  [test_name     |-> "Chi-square Test",
         statistic     |-> ChiSquareSum(ChiSquareTerm(exam_views, expected_exam),
                                        ChiSquareTerm(non_exam_views, expected_non_exam)),
         p_value       |-> Computed("chisquare.pvalue", observed, expected),
         observed      |-> observed,
         expected      |-> expected,
         exam_rate     |-> Rat(exam_views, exam_days),
         non_exam_rate |-> Rat(non_exam_views, non_exam_days)]

-----------------------------------------------------------------------------
(* Idle values of the three groups of variables *)

NoTable  == <<>>
NoResult == [none |-> TRUE]

PipeIdle ==
    /\ raw = <<>> /\ pc = "input" /\ df = NoTable
    /\ daily_counts = NoTable /\ weekly_counts = NoTable
    /\ exam_period_stats = NoTable /\ dow_stats = NoTable /\ weekend_stats = NoTable
    /\ files = <<>> /\ error = ""
    /\ an_daily = NoTable /\ an_weekly = NoTable
    /\ ttest = NoResult /\ weekly_stats = NoResult /\ an_error = ""
    /\ st_daily = NoTable /\ st_exam_stats = NoTable
    /\ mann_whitney = NoResult /\ chi_square = NoResult /\ chi_error = ""
    /\ binge_sessions = NoTable /\ binge_stats = NoTable /\ binge_error = ""
    /\ arg_before = NoTable /\ arg_after = NoTable

TitleIdle ==
    /\ title = <<>> /\ tchunks = 0 /\ tpc = "build"
    /\ parsed = NoResult /\ reparsed = NoResult

ClassIdle ==
    /\ cdate = NaT /\ cpc = "idle"
    /\ cflag = FALSE /\ cflag_tests = FALSE /\ cflag_analysis = FALSE

-----------------------------------------------------------------------------
(* Spec: one run of process_netflix_data on an input file, followed by one   *)
(* of the consumers of its results                                           *)

Title_A_S1E1 == <<"A", ":", " ", "Season", " ", "1", ":", " ", "Episode", " ", "1">>
Title_A_S1E2 == <<"A", ":", " ", "Season", " ", "1", ":", " ", "Episode", " ", "2">>
Title_B      == <<"B">>
InputTitles  == {Title_A_S1E1, Title_A_S1E2, Title_B}

\* Sat 2024-01-06 (ISO week 1), Tue 2024-05-14, Mon 2024-12-30 (ISO week 1 of
\* 2025), Thu 2025-01-02 (outside the analysis year)
InputDates == {MdyText(1, 6, 24), MdyText(5, 14, 24), MdyText(12, 30, 24),
               MdyText(1, 2, 25)}

InputRows ==
    {[Date |-> d, Title |-> t] : d \in {MdyText(1, 6, 24), MdyText(5, 14, 24)},
                                 t \in InputTitles}
    \cup {[Date |-> d, Title |-> Title_B] : d \in InputDates}
    \cup {[Date |-> IsoText(2024, 1, 6), Title |-> Title_B],   \* not '%m/%d/%y'
          [Date |-> EmptyCell, Title |-> Title_B]}             \* no timestamp

pipeOut == <<daily_counts, weekly_counts, exam_period_stats, dow_stats, weekend_stats,
             files, error>>
pipeUse == <<anVars, stVars, bingeVars>>

\* the input file gets one more record
AddRow(r) ==
    /\ pc = "input" /\ Len(raw) < MaxRows
    /\ raw' = Append(raw, r)
    /\ UNCHANGED <<pc, df, pipeOut, pipeUse, frameVars, titleVars, classVars>>

\* df = load_data(input_file)
LoadData ==
    /\ pc = "input"
    /\ df' = raw
    /\ pc' = "loaded"
    /\ UNCHANGED <<raw, pipeOut, pipeUse, frameVars, titleVars, classVars>>

\* df = clean_data(df), returning
CleanData ==
    /\ pc = "loaded" /\ ~ToDatetimeRaises(df)
    /\ df' = clean_data(df)
    /\ arg_before' = df
    /\ arg_after' = convert_dates(df)
    /\ pc' = "cleaned"
    /\ UNCHANGED <<raw, pipeOut, pipeUse, titleVars, classVars>>

\* df = clean_data(df), raising: nothing catches the ValueError, it leaves
\* process_netflix_data
CleanDataRaises ==
    /\ pc = "loaded" /\ ToDatetimeRaises(df)
    /\ error' = "ValueError"
    /\ arg_before' = df
    /\ arg_after' = df
    /\ pc' = "failed"
    /\ UNCHANGED <<raw, df, daily_counts, weekly_counts, exam_period_stats, dow_stats,
                   weekend_stats, files, pipeUse, titleVars, classVars>>

\* df = add_exam_period_flag(df)
AddExamPeriodFlag ==
    /\ pc = "cleaned"
    /\ df' = add_exam_period_flag(df)
    /\ arg_before' = df
    /\ arg_after' = add_exam_period_flag(df)
    /\ pc' = "flagged"
    /\ UNCHANGED <<raw, pipeOut, pipeUse, titleVars, classVars>>

\* df = add_time_features(df)
AddTimeFeatures ==
    /\ pc = "flagged"
    /\ df' = add_time_features(df)
    /\ arg_before' = df
    /\ arg_after' = add_time_features(df)
    /\ pc' = "featured"
    /\ UNCHANGED <<raw, pipeOut, pipeUse, titleVars, classVars>>

\* daily_counts, ... = calculate_viewing_metrics(df)
CalculateViewingMetrics ==
    /\ pc = "featured"
    /\ daily_counts' = DailyCounts(df)
    /\ weekly_counts' = WeeklyCounts(df)
    /\ exam_period_stats' = ExamPeriodStats(df)
    /\ dow_stats' = DowStats(df)
    /\ weekend_stats' = WeekendStats(df)
    /\ pc' = "metrics"
    /\ UNCHANGED <<raw, df, files, error, pipeUse, frameVars, titleVars, classVars>>

\* the to_csv calls that end process_netflix_data
SaveProcessedData ==
    /\ pc = "metrics"
    /\ files' = [processed_netflix_data |-> DateToCsv(df),
                 daily_viewing_counts   |-> DateToCsv(daily_counts),
                 weekly_viewing_counts  |-> weekly_counts,
                 exam_period_stats      |-> exam_period_stats,
                 day_of_week_stats      |-> dow_stats,
                 weekend_stats          |-> weekend_stats]
    /\ pc' = "saved"
    /\ UNCHANGED <<raw, df, daily_counts, weekly_counts, exam_period_stats, dow_stats,
                   weekend_stats, error, pipeUse, frameVars, titleVars, classVars>>

\* statistical_analysis.main: daily_counts, weekly_counts = load_processed_data()
LoadProcessedData ==
    /\ pc = "saved"
    /\ an_daily' = load_processed_data(files.daily_viewing_counts)
    /\ an_weekly' = files.weekly_viewing_counts
    /\ pc' = "an_loaded"
    /\ UNCHANGED <<raw, df, pipeOut, ttest, weekly_stats, an_error,
                   stVars, bingeVars, frameVars, titleVars, classVars>>

\* statistical_analysis.main: perform_ttest_exam_periods(daily_counts), on a
\* table with at least one row
PerformTTest ==
    /\ pc = "an_loaded" /\ an_daily # <<>>
    /\ ttest' = perform_ttest_exam_periods(an_daily)
    /\ pc' = "an_done"
    /\ UNCHANGED <<raw, df, pipeOut, an_daily, an_weekly, weekly_stats, an_error,
                   stVars, bingeVars, frameVars, titleVars, classVars>>

\* statistical_analysis.main: analyze_weekly_patterns(weekly_counts)
AnalyzeWeeklyPatterns ==
    /\ pc = "an_done"
    /\ ~PearsonrRaises(an_weekly)
    /\ an_weekly' = to_numeric_columns(an_weekly)
    /\ weekly_stats' = analyze_weekly_patterns(to_numeric_columns(an_weekly))
    /\ arg_before' = an_weekly
    /\ arg_after' = to_numeric_columns(an_weekly)
    /\ pc' = "an_weekly"
    /\ UNCHANGED <<raw, df, pipeOut, an_daily, ttest, an_error,
                   stVars, bingeVars, titleVars, classVars>>

\* statistical_analysis.main: analyze_weekly_patterns(weekly_counts) raises in
\* stats.pearsonr; `except Exception` of main prints the message, no result
\* is saved
AnalyzeWeeklyPatternsRaises ==
    /\ pc = "an_done"
    /\ PearsonrRaises(an_weekly)
    /\ an_weekly' = to_numeric_columns(an_weekly)
    /\ an_error' = "ValueError"
    /\ arg_before' = an_weekly
    /\ arg_after' = to_numeric_columns(an_weekly)
    /\ pc' = "an_failed"
    /\ UNCHANGED <<raw, df, pipeOut, an_daily, ttest, weekly_stats,
                   stVars, bingeVars, titleVars, classVars>>

\* statistical_tests.main: daily_views, exam_stats = load_data()
TestsLoadData ==
    /\ pc = "saved"
    /\ st_daily' = tests_load_data(files.daily_viewing_counts)
    /\ st_exam_stats' = files.exam_period_stats
    /\ pc' = "st_loaded"
    /\ UNCHANGED <<raw, df, pipeOut, anVars, mann_whitney, chi_square,
                   chi_error, bingeVars, frameVars, titleVars, classVars>>

\* statistical_tests.main: mann_whitney_test(daily_views)
MannWhitneyTest ==
    /\ pc = "st_loaded"
    /\ st_daily' = mann_whitney_flag(st_daily)
    /\ mann_whitney' = mann_whitney_result(mann_whitney_flag(st_daily))
    /\ arg_before' = st_daily
    /\ arg_after' = mann_whitney_flag(st_daily)
    /\ pc' = "st_done"
    /\ UNCHANGED <<raw, df, pipeOut, anVars, st_exam_stats, chi_square, chi_error,
                   bingeVars, titleVars, classVars>>

\* statistical_tests.main: chi_square_test(exam_stats)
ChiSquareTest ==
    /\ pc = "st_done"
    /\ ~ChiSquareRaises(st_exam_stats)
    /\ chi_square' = chi_square_test(st_exam_stats)
    /\ pc' = "st_chi"
    /\ UNCHANGED <<raw, df, pipeOut, anVars, st_daily, st_exam_stats, mann_whitney,
                   chi_error, bingeVars, frameVars, titleVars, classVars>>

\* statistical_tests.main: chi_square_test(exam_stats) ends in an exception
ChiSquareTestRaises ==
    /\ pc = "st_done"
    /\ ChiSquareRaises(st_exam_stats)
    /\ chi_error' \in ChiSquareErrors(st_exam_stats)
    /\ pc' = "st_chi"
    /\ UNCHANGED <<raw, df, pipeOut, anVars, st_daily, st_exam_stats, mann_whitney,
                   chi_square, bingeVars, frameVars, titleVars, classVars>>

\* calculate_binge_watching_metrics(df) on the table process_netflix_data returned
CalculateBingeWatchingMetrics ==
    /\ pc = "saved"
    /\ LET r == calculate_binge_watching_metrics(df)
       IN  /\ binge_sessions' = r.binge_sessions
           /\ binge_stats' = r.binge_stats
           /\ binge_error' = r.raised
    /\ pc' = "binge_done"
    /\ UNCHANGED <<raw, df, pipeOut, anVars, stVars, frameVars, titleVars, classVars>>

Init == PipeIdle /\ TitleIdle /\ ClassIdle

Next ==
    \/ \E r \in InputRows : AddRow(r)
    \/ LoadData
    \/ CleanData
    \/ CleanDataRaises
    \/ AddExamPeriodFlag
    \/ AddTimeFeatures
    \/ CalculateViewingMetrics
    \/ SaveProcessedData
    \/ LoadProcessedData
    \/ PerformTTest
    \/ AnalyzeWeeklyPatterns
    \/ AnalyzeWeeklyPatternsRaises
    \/ TestsLoadData
    \/ MannWhitneyTest
    \/ ChiSquareTest
    \/ ChiSquareTestRaises
    \/ CalculateBingeWatchingMetrics

Spec == Init /\ [][Next]_vars

-----------------------------------------------------------------------------
(* SpecTitle: extract_show_info on every title assembled from TitleChunks *)

TitleChunks == {
    <<"A">>, <<" ">>, <<":">>, <<":", " ">>, <<"\n">>, <<"1">>, <<"Season", " ">>,
    <<":", " ", "Season", " ", "1">>,
    <<":", " ", "Episode", " ", "1">> }

AppendChunk(c) ==
    /\ tpc = "build" /\ tchunks < MaxChunks
    /\ title' = title \o c
    /\ tchunks' = tchunks + 1
    /\ UNCHANGED <<tpc, parsed, reparsed, pipeVars, classVars>>

\* show_name, season, episode = extract_show_info(title)
ParseTitle ==
    /\ tpc = "build"
    /\ parsed' = extract_show_info(title)
    /\ tpc' = "parsed"
    /\ UNCHANGED <<title, tchunks, reparsed, pipeVars, classVars>>

\* extract_show_info(show_name)
ReparseTitle ==
    /\ tpc = "parsed"
    /\ reparsed' = extract_show_info(parsed.show_name)
    /\ tpc' = "reparsed"
    /\ UNCHANGED <<title, tchunks, parsed, pipeVars, classVars>>

InitTitle == PipeIdle /\ TitleIdle /\ ClassIdle
NextTitle == (\E c \in TitleChunks : AppendChunk(c)) \/ ParseTitle \/ ReparseTitle
SpecTitle == InitTitle /\ [][NextTitle]_vars

-----------------------------------------------------------------------------
(* SpecClassify: the three is_exam_period functions on every date of        *)
(* ClassifyYears                                                            *)

ClassifyYears == {2023, 2024, 2025}
ClassifyDates ==
    {<<y, m, d>> : y \in ClassifyYears, m \in 1..12, d \in 1..31} \cap
    {dt \in ClassifyYears \X (1..12) \X (1..31) : IsValidDate(dt[1], dt[2], dt[3])}

\* df['Date'].apply(is_exam_period), one element
ClassifyDate ==
    /\ cpc = "picked"
    /\ cflag' = is_exam_period(cdate)
    /\ cflag_tests' = tests_is_exam_period(cdate)
    /\ cflag_analysis' = analysis_is_exam_period(cdate)
    /\ cpc' = "done"
    /\ UNCHANGED <<cdate, pipeVars, titleVars>>

InitClassify ==
    /\ PipeIdle /\ TitleIdle
    /\ cdate \in ClassifyDates /\ cpc = "picked"
    /\ cflag = FALSE /\ cflag_tests = FALSE /\ cflag_analysis = FALSE
NextClassify == ClassifyDate
SpecClassify == InitClassify /\ [][NextClassify]_vars

-----------------------------------------------------------------------------
(* SpecTTest: statistical_analysis on a daily table of any content, as an    *)
(* earlier run left it in data/processed                                     *)

MaxDays  == 4
MaxViews == 2

\* non-exam, exam, non-exam, exam, exam, non-exam under the list of
\* statistical_analysis.is_exam_period
DailyDates == <<<<2024, 1, 6>>, <<2024, 1, 10>>, <<2024, 3, 1>>, <<2024, 5, 14>>,
                <<2024, 5, 20>>, <<2024, 12, 30>>>>

NoFiles ==
    [processed_netflix_data |-> NoTable, daily_viewing_counts |-> NoTable,
     weekly_viewing_counts  |-> NoTable, exam_period_stats    |-> NoTable,
     day_of_week_stats      |-> NoTable, weekend_stats        |-> NoTable]

\* one more row of daily_viewing_counts.csv, the dates ascending as
\* process_netflix_data writes them
WriteDailyRow(k, v) ==
    /\ pc = "saved"
    /\ Len(files.daily_viewing_counts) < MaxDays
    /\ \A i \in 1..Len(files.daily_viewing_counts) :
           ToOrdinal(to_datetime(files.daily_viewing_counts[i].Date))
               < ToOrdinal(DailyDates[k])
    /\ files' = [files EXCEPT !.daily_viewing_counts =
                    Append(@, [Date |-> IsoText(DailyDates[k][1], DailyDates[k][2],
                                                DailyDates[k][3]),
                               daily_views |-> v, unique_shows |-> 1])]
    /\ UNCHANGED <<raw, pc, df, daily_counts, weekly_counts, exam_period_stats,
                   dow_stats, weekend_stats, error, pipeUse, frameVars,
                   titleVars, classVars>>

InitTTest ==
    /\ raw = <<>> /\ pc = "saved" /\ df = NoTable
    /\ daily_counts = NoTable /\ weekly_counts = NoTable
    /\ exam_period_stats = NoTable /\ dow_stats = NoTable /\ weekend_stats = NoTable
    /\ files = NoFiles /\ error = ""
    /\ an_daily = NoTable /\ an_weekly = NoTable
    /\ ttest = NoResult /\ weekly_stats = NoResult /\ an_error = ""
    /\ st_daily = NoTable /\ st_exam_stats = NoTable
    /\ mann_whitney = NoResult /\ chi_square = NoResult /\ chi_error = ""
    /\ binge_sessions = NoTable /\ binge_stats = NoTable /\ binge_error = ""
    /\ arg_before = NoTable /\ arg_after = NoTable
    /\ TitleIdle /\ ClassIdle
NextTTest ==
    \/ \E k \in 1..Len(DailyDates), v \in 1..MaxViews : WriteDailyRow(k, v)
    \/ LoadProcessedData
    \/ PerformTTest
SpecTTest == InitTTest /\ [][NextTTest]_vars

-----------------------------------------------------------------------------
(* SpecChi: statistical_tests on an exam_period_stats.csv of any content     *)

StatViews == {1, 2, 50, 100}
StatDays  == {1, 2, 10}

\* one non-exam day and one exam day, under the list of statistical_tests
ChiDaily == <<[Date |-> IsoText(2024, 1, 6),  daily_views |-> 1, unique_shows |-> 1],
              [Date |-> IsoText(2024, 5, 14), daily_views |-> 1, unique_shows |-> 1]>>

\* one more row of exam_period_stats.csv, the classes ascending as groupby
\* leaves them, a class having no more days than views
WriteExamStatsRow(c, v, d) ==
    /\ pc = "saved"
    /\ d <= v
    /\ \A i \in 1..Len(files.exam_period_stats) :
           BoolRank(files.exam_period_stats[i].is_exam_period) < BoolRank(c)
    /\ files' = [files EXCEPT !.exam_period_stats =
                    Append(@, [is_exam_period |-> c, total_views |-> v,
                               unique_shows |-> 1, unique_days |-> d])]
    /\ UNCHANGED <<raw, pc, df, daily_counts, weekly_counts, exam_period_stats,
                   dow_stats, weekend_stats, error, pipeUse, frameVars,
                   titleVars, classVars>>

InitChi ==
    /\ raw = <<>> /\ pc = "saved" /\ df = NoTable
    /\ daily_counts = NoTable /\ weekly_counts = NoTable
    /\ exam_period_stats = NoTable /\ dow_stats = NoTable /\ weekend_stats = NoTable
    /\ files = [NoFiles EXCEPT !.daily_viewing_counts = ChiDaily] /\ error = ""
    /\ an_daily = NoTable /\ an_weekly = NoTable
    /\ ttest = NoResult /\ weekly_stats = NoResult /\ an_error = ""
    /\ st_daily = NoTable /\ st_exam_stats = NoTable
    /\ mann_whitney = NoResult /\ chi_square = NoResult /\ chi_error = ""
    /\ binge_sessions = NoTable /\ binge_stats = NoTable /\ binge_error = ""
    /\ arg_before = NoTable /\ arg_after = NoTable
    /\ TitleIdle /\ ClassIdle
NextChi ==
    \/ \E c \in BOOLEAN, v \in StatViews, d \in StatDays : WriteExamStatsRow(c, v, d)
    \/ TestsLoadData
    \/ MannWhitneyTest
    \/ ChiSquareTest
    \/ ChiSquareTestRaises
SpecChi == InitChi /\ [][NextChi]_vars

-----------------------------------------------------------------------------
(* Claims *)

\* Direct containment of a date in some interval of a list, bounds inclusive
Contained(date, periods) ==
    \E i \in 1..Len(periods) :
        /\ ToOrdinal(to_datetime(periods[i][1])) <= ToOrdinal(date)
        /\ ToOrdinal(date) <= ToOrdinal(to_datetime(periods[i][2]))

\* C1: is_exam_period(d) (process_netflix_data.py and statistical_tests.py) is
\* true exactly when some configured interval contains d, bounds inclusive.
C1_ClassifierIsContainment ==
    cpc = "done" =>
        /\ cflag = Contained(cdate, EXAM_PERIODS)
        /\ cflag_tests = Contained(cdate, TESTS_EXAM_PERIODS)

\* an end date classified true
C1_Witness == cpc = "done" /\ cdate = <<2024, 3, 29>> /\ cflag /\ cflag_tests

\* positions of the run at which the aggregate tables exist
AfterMetrics == {"metrics", "saved", "an_loaded", "an_done", "st_loaded", "st_done",
                 "binge_done"}

\* the flag the daily row of a consumer carries equals the flag of every event
\* of that date
FlagsAgree(daily) ==
    \A i \in 1..Len(daily), j \in 1..Len(df) :
        df[j].Date = daily[i].Date => daily[i].is_exam_period = df[j].is_exam_period

\* C2: the is_exam_period flag of a daily row consumed by the t-test
\* (load_processed_data) or by the rank-sum test (mann_whitney_test) equals the
\* flag add_exam_period_flag gave the events of that date.
C2_FlagSameAtEveryStage ==
    /\ pc \in {"an_loaded", "an_done"} => FlagsAgree(an_daily)
    /\ pc = "st_done" => FlagsAgree(st_daily)

\* C3: the daily_views of all daily rows, and the weekly_views of all weekly
\* rows, each sum to the number of events.
C3_AggregationConservesCount ==
    pc \in AfterMetrics =>
        /\ SumSeq([k \in 1..Len(daily_counts) |-> daily_counts[k].daily_views]) = Len(df)
        /\ SumSeq([k \in 1..Len(weekly_counts) |-> weekly_counts[k].weekly_views])
               = Len(df)

\* three events aggregated into two days and two weeks
C3_Witness ==
    pc = "metrics" /\ Len(df) = 3 /\ Len(daily_counts) = 2 /\ Len(weekly_counts) = 2

\* C4: two events are counted in the same weekly row exactly when they belong to
\* the same ISO week of the same ISO year, and each weekly row counts the events
\* of one ISO week.
C4_WeeklyRowsAreIsoWeeks ==
    pc \in AfterMetrics =>
        /\ \A i, j \in 1..Len(df) :
               (WeekKey(df[i]) = WeekKey(df[j]))
                   <=> (IsoCalendar(df[i].Date) = IsoCalendar(df[j].Date))
        /\ \A k \in 1..Len(weekly_counts) :
               \E yw \in {IsoCalendar(df[i].Date) : i \in 1..Len(df)} :
                   weekly_counts[k].weekly_views =
                       Cardinality({i \in 1..Len(df) : IsoCalendar(df[i].Date) = yw})

\* C5: one daily row per date that has events and none for other dates; its
\* daily_views is the number of events of the date and its unique_shows the
\* number of distinct show names among them.
C5_DailyRows ==
    pc \in AfterMetrics =>
        LET dates == {df[j].Date : j \in 1..Len(df)}
        IN  /\ {daily_counts[k].Date : k \in 1..Len(daily_counts)} = dates
            /\ Len(daily_counts) = Cardinality(dates)
            /\ \A k \in 1..Len(daily_counts) :
                   LET on == {j \in 1..Len(df) : df[j].Date = daily_counts[k].Date}
                   IN  /\ daily_counts[k].daily_views = Cardinality(on)
                       /\ daily_counts[k].unique_shows =
                              Cardinality({df[j].show_name : j \in on})
                       /\ 1 <= daily_counts[k].unique_shows
                       /\ daily_counts[k].unique_shows <= daily_counts[k].daily_views

\* two days with events; on one of them two events of one show
C5_Witness ==
    /\ pc = "metrics" /\ Len(daily_counts) = 2
    /\ \E k \in 1..Len(daily_counts) :
           daily_counts[k].daily_views = 2 /\ daily_counts[k].unique_shows = 1

\* C6: a (date, show_name) pair is in binge_sessions, once, exactly when at least
\* 3 events have that date and that show; its episodes_watched is their number.
C6_BingeIffThreeSameDayShow ==
    pc = "binge_done" =>
        /\ \A j \in 1..Len(df) :
               LET n    == Cardinality({i \in 1..Len(df) :
                               df[i].Date = df[j].Date /\ df[i].show_name = df[j].show_name})
                   rows == {k \in 1..Len(binge_sessions) :
                               /\ binge_sessions[k].Date = df[j].Date
                               /\ binge_sessions[k].show_name = df[j].show_name}
               IN  /\ Cardinality(rows) = (IF n >= 3 THEN 1 ELSE 0)
                   /\ \A k \in rows : binge_sessions[k].episodes_watched = n
        /\ \A k \in 1..Len(binge_sessions) :
               \E j \in 1..Len(df) :
                   /\ df[j].Date = binge_sessions[k].Date
                   /\ df[j].show_name = binge_sessions[k].show_name

\* exactly three events of one show on one day, flagged once
C6_Witness ==
    /\ pc = "binge_done" /\ Len(df) = 3 /\ Len(binge_sessions) = 1
    /\ binge_sessions[1].episodes_watched = 3

\* C7: calculate_binge_watching_metrics returns, for each period class present,
\* the ratio (events of the class in a flagged (date, show) group) / (events of
\* the class).
C7_BingeRatioPerClass ==
    pc = "binge_done" =>
        /\ binge_error = ""
        /\ \A j \in 1..Len(df) :
               \E k \in 1..Len(binge_stats) :
                   LET class  == {i \in 1..Len(df) :
                                     df[i].is_exam_period = df[j].is_exam_period}
                       binged == {i \in class :
                                     Cardinality({h \in 1..Len(df) :
                                         /\ df[h].Date = df[i].Date
                                         /\ df[h].show_name = df[i].show_name}) >= 3}
                   IN  /\ binge_stats[k].is_exam_period = df[j].is_exam_period
                       /\ binge_stats[k].binge_watching_ratio =
                              Rat(Cardinality(binged), Cardinality(class))

\* C8: re-parsing the extracted show name returns it unchanged, with no season
\* and no episode.
C8_ParseIdempotent ==
    tpc = "reparsed" =>
        reparsed = [show_name |-> parsed.show_name, season |-> None, episode |-> None]

\* a title with show, season and episode, parsed and re-parsed
C8_Witness ==
    /\ tpc = "reparsed"
    /\ parsed = [show_name |-> <<"A">>, season |-> <<"1">>,
                 episode |-> <<"Episode", " ", "1">>]

\* C9: a run whose input has a record with a timestamp that is not in the
\* configured format ends in the error, with no aggregate table and no file.
C9_MalformedTimestampRejected ==
    (/\ pc \notin {"input", "loaded"}
     /\ \E i \in 1..Len(raw) : IsNull(raw[i].Date) \/ ~MatchesFormat(raw[i].Date))
    => /\ pc = "failed" /\ error # ""
       /\ files = <<>>
       /\ daily_counts = NoTable /\ weekly_counts = NoTable

ExamSample    == DailyViewsWhere(an_daily, TRUE)
NonExamSample == DailyViewsWhere(an_daily, FALSE)

\* the same value at every position
Identical(s) == \A i, j \in 1..Len(s) : s[i] = s[j]

\* n^2 times the sum of the squared deviations from the mean
SqDev(s) ==
    LET n == Len(s)
        dev == [i \in 1..n |-> (n * s[i] - SumSeq(s)) * (n * s[i] - SumSeq(s))]
    IN  SumSeq(dev)

\* equality of two fractions with non-zero denominators
RatEq(x, y) == x.den # 0 /\ y.den # 0 /\ x.num * y.den = y.num * x.den

\* cohens_d is the number 0, or is NaN
IsNumberZero(d) == DOMAIN d = {"num", "den"} /\ d.num = 0 /\ d.den # 0
IsNotANumber(d) == DOMAIN d = {"num", "den"} /\ d.num = 0 /\ d.den = 0

\* cohens_d is the quotient of the mean difference by the pooled deviation
IsStandardisedDifference(d, a, b) ==
    LET na == Len(a)
        nb == Len(b)
    IN  /\ DOMAIN d = {"num", "root_of"}
        /\ d.root_of.num # 0 /\ d.root_of.den # 0
        /\ RatEq(d.num, Rat(SumSeq(a) * nb - SumSeq(b) * na, na * nb))
        /\ RatEq(d.root_of, Rat(SqDev(a) * nb * nb + SqDev(b) * na * na,
                                na * na * nb * nb * (na + nb - 2)))

\* C11 (as stated): for two non-empty samples whose daily counts are identical
\* within each sample, the pooled standard deviation is zero and cohens_d is
\* reported as 0; for any other two non-empty samples cohens_d is the mean
\* difference divided by the pooled standard deviation.
C11_ZeroPooledGivesZero ==
    (pc = "an_done" /\ Len(ExamSample) >= 1 /\ Len(NonExamSample) >= 1) =>
        IF Identical(ExamSample) /\ Identical(NonExamSample)
        THEN IsNumberZero(ttest.cohens_d)
        ELSE IsStandardisedDifference(ttest.cohens_d, ExamSample, NonExamSample)

\* C11 (amended): the statement above holds for samples of at least two days
\* each; when a sample has a single day its variance is 0/0, and cohens_d is
\* NaN whatever the counts are.
C11_CohensD ==
    (pc = "an_done" /\ Len(ExamSample) >= 1 /\ Len(NonExamSample) >= 1) =>
        IF Len(ExamSample) = 1 \/ Len(NonExamSample) = 1
        THEN IsNotANumber(ttest.cohens_d)
        ELSE IF Identical(ExamSample) /\ Identical(NonExamSample)
             THEN IsNumberZero(ttest.cohens_d)
             ELSE IsStandardisedDifference(ttest.cohens_d, ExamSample, NonExamSample)

\* two exam days of 2 views and two non-exam days of 1 view: the pooled
\* standard deviation is zero although the means differ
C11_Witness ==
    /\ pc = "an_done"
    /\ ExamSample = <<2, 2>> /\ NonExamSample = <<1, 1>>
    /\ IsNumberZero(ttest.cohens_d)

\* the days and the total of the table chi_square_test was given, exam class
\* first as in `observed`
StatDaysOf(flag) == ClassRows(st_exam_stats, flag)[1].unique_days
StatTotalDays == StatDaysOf(TRUE) + StatDaysOf(FALSE)
ObservedTotal == chi_square.observed[1] + chi_square.observed[2]

\* sum over the two classes of (O - E)^2 / E with E = T * d / D, over the
\* common denominator D * T * d1 * d2
StandardChiSquare(o, d) ==
    LET T == o[1] + o[2]
        D == d[1] + d[2]
    IN  Reduce(Rat((o[1] * D - T * d[1]) * (o[1] * D - T * d[1]) * d[2]
                     + (o[2] * D - T * d[2]) * (o[2] * D - T * d[2]) * d[1],
                   D * T * d[1] * d[2]))

\* C12: the expected count of a class is total_views * days_of_class /
\* total_days, the expected counts sum to the observed total, the statistic is
\* the sum over the classes of (O - E)^2 / E, and observed [100, 50] over days
\* [10, 10] gives expected [75, 75].
C12_ExpectedProportionalToDays ==
    (pc = "st_chi" /\ chi_error = "") =>
        /\ chi_square.observed = <<ClassRows(st_exam_stats, TRUE)[1].total_views,
                                   ClassRows(st_exam_stats, FALSE)[1].total_views>>
        /\ RatEq(chi_square.expected[1],
                 Rat(ObservedTotal * StatDaysOf(TRUE), StatTotalDays))
        /\ RatEq(chi_square.expected[2],
                 Rat(ObservedTotal * StatDaysOf(FALSE), StatTotalDays))
        /\ RatEq(RatPlus(chi_square.expected[1], chi_square.expected[2]),
                 Rat(ObservedTotal, 1))
        /\ chi_square.statistic =
               StandardChiSquare(chi_square.observed,
                                 <<StatDaysOf(TRUE), StatDaysOf(FALSE)>>)
        /\ (chi_square.observed = <<100, 50>> /\ StatDaysOf(TRUE) = 10
                /\ StatDaysOf(FALSE) = 10)
           => chi_square.expected = <<Rat(75, 1), Rat(75, 1)>>

\* observed [100, 50] over days [10, 10] went through chi_square_test
C12_Witness ==
    /\ pc = "st_chi" /\ chi_error = ""
    /\ chi_square.observed = <<100, 50>>
    /\ ClassRows(st_exam_stats, TRUE)[1].unique_days = 10
    /\ ClassRows(st_exam_stats, FALSE)[1].unique_days = 10
    /\ chi_square.expected = <<Rat(75, 1), Rat(75, 1)>>
    /\ chi_square.statistic = Rat(50, 3)

\* a period class with no day: exam_stats has no row for it
AbsentClasses == {c \in BOOLEAN : ClassRows(st_exam_stats, c) = <<>>}

\* C13: when one period class has no day, chi_square_test does not raise and
\* returns a result in which the rate and the expected count of that class
\* are 0 or NaN.
C13_ZeroDayClassGivesSentinel ==
    (pc = "st_chi" /\ Cardinality(AbsentClasses) = 1) =>
        /\ chi_error = ""
        /\ chi_square # NoResult
        /\ \A c \in AbsentClasses :
               LET k    == IF c THEN 1 ELSE 2
                   rate == IF c THEN chi_square.exam_rate ELSE chi_square.non_exam_rate
               IN  /\ IsZero(chi_square.expected[k]) \/ IsNaN(chi_square.expected[k])
                   /\ IsZero(rate) \/ IsNaN(rate)

\* C14: when clean_data, add_exam_period_flag, add_time_features,
\* mann_whitney_test or analyze_weekly_patterns has returned, the table it was
\* given has the columns and the cell values it had when the stage was called.
C14_StageLeavesInputUnchanged == arg_after = arg_before

\* C17: analyze_weekly_patterns returns a result for every weekly table, one
\* with no row or a single row included, and does not raise.
C17_WeeklyPatternsTotal ==
    pc \in {"an_weekly", "an_failed"} =>
        /\ an_error = ""
        /\ weekly_stats # NoResult

\* the year a '%m/%d/%y' timestamp of the input denotes (0 for an empty cell)
YearOfText(text) ==
    IF IsNull(text) THEN 0
    ELSE IF text.f[3] < 69 THEN 2000 + text.f[3] ELSE 1900 + text.f[3]

\* the events of the input file dated in 2024, as (month, day, title)
EventsIn2024 == {i \in 1..Len(raw) : YearOfText(raw[i].Date) = 2024}

\* C15: after clean_data every retained event is dated in 2024, and the
\* retained rows are exactly the input rows whose parsed date is in 2024, each
\* as often as the input has it; rows of other years are dropped without an
\* error.
C15_RetainedAreExactly2024 ==
    /\ pc = "cleaned" =>
           /\ error = ""
           /\ \A i \in 1..Len(df) : df[i].Date[1] = 2024
           /\ Len(df) = Cardinality(EventsIn2024)
           /\ \A i \in EventsIn2024 :
                  Cardinality({j \in 1..Len(df) :
                                  /\ df[j].Title = raw[i].Title
                                  /\ df[j].Date = <<2024, raw[i].Date.f[1], raw[i].Date.f[2]>>})
                  = Cardinality({j \in EventsIn2024 : raw[j] = raw[i]})
    /\ pc = "failed" => \E i \in 1..Len(raw) : ~IsNull(raw[i].Date) /\ raw[i].Date.sep # "/"

\* an input of three events, one of them dated 2025, went through clean_data
\* and two rows are left
C15_Witness ==
    /\ pc = "cleaned" /\ Len(raw) = 3 /\ Len(df) = 2
    /\ \E i \in 1..Len(raw) : YearOfText(raw[i].Date) = 2025

\* the rows of a table in another order
Perms(n) == {p \in [1..n -> 1..n] : \A i, j \in 1..n : p[i] = p[j] => i = j}
Permuted(table, p) == [i \in 1..Len(table) |-> table[p[i]]]

\* strictly ascending sequence of integers
Ascending(ranks) == \A i \in 1..(Len(ranks) - 1) : ranks[i] < ranks[i + 1]

\* C16: whatever the order of the rows given to calculate_viewing_metrics, the
\* daily, weekly, weekday and weekend tables are the same, and each has its
\* rows in ascending order of its grouping key.
C16_MetricsIgnoreRowOrder ==
    pc = "metrics" =>
        /\ \A p \in Perms(Len(df)) :
               /\ DailyCounts(Permuted(df, p)) = daily_counts
               /\ WeeklyCounts(Permuted(df, p)) = weekly_counts
               /\ DowStats(Permuted(df, p)) = dow_stats
               /\ WeekendStats(Permuted(df, p)) = weekend_stats
        /\ Ascending([k \in 1..Len(daily_counts) |->
                          daily_counts[k].Date[1] * 10000 + daily_counts[k].Date[2] * 100
                              + daily_counts[k].Date[3]])
        /\ Ascending([k \in 1..Len(weekly_counts) |->
                          weekly_counts[k].year * 100 + weekly_counts[k].week_number])
        /\ Ascending([k \in 1..Len(dow_stats) |->
                          (IF dow_stats[k].is_exam_period THEN 10 ELSE 0)
                              + dow_stats[k].day_of_week])
        /\ Ascending([k \in 1..Len(weekend_stats) |->
                          (IF weekend_stats[k].is_exam_period THEN 2 ELSE 0)
                              + (IF weekend_stats[k].is_weekend THEN 1 ELSE 0)])

\* three events on three days went through calculate_viewing_metrics
C16_Witness ==
    /\ pc = "metrics" /\ Len(df) = 3
    /\ Len(daily_counts) = 3 /\ Len(weekly_counts) = 2 /\ Len(dow_stats) = 3

\* the sum of one integer column of a table
ColumnSum(table, column) == SumSeq([k \in 1..Len(table) |-> table[k][column]])

\* C18: the categorical tables partition the events: total_views of
\* exam_period_stats, views of dow_stats and views of weekend_stats each sum
\* to the number of events, unique_days of exam_period_stats sums to the number
\* of daily rows, and for each period class the weekend count of weekend_stats
\* equals the sum of the dow_stats counts of the days 5 and 6.
C18_CategoricalTablesPartition ==
    pc = "metrics" =>
        /\ ColumnSum(exam_period_stats, "total_views") = Len(df)
        /\ ColumnSum(dow_stats, "views") = Len(df)
        /\ ColumnSum(weekend_stats, "views") = Len(df)
        /\ ColumnSum(exam_period_stats, "unique_days") = Len(daily_counts)
        /\ \A c \in BOOLEAN :
               ColumnSum(SelectIdx(weekend_stats,
                             {k \in 1..Len(weekend_stats) :
                                 /\ weekend_stats[k].is_exam_period = c
                                 /\ weekend_stats[k].is_weekend}), "views")
               = ColumnSum(SelectIdx(dow_stats,
                             {k \in 1..Len(dow_stats) :
                                 /\ dow_stats[k].is_exam_period = c
                                 /\ dow_stats[k].day_of_week \in {5, 6}}), "views")

\* two events on a Saturday and one on a Tuesday in an exam interval went
\* through calculate_viewing_metrics
C18_Witness ==
    /\ pc = "metrics" /\ Len(df) = 3
    /\ Len(exam_period_stats) = 2
    /\ \E k \in 1..Len(weekend_stats) :
           weekend_stats[k].is_weekend /\ weekend_stats[k].views = 2

====
